---- MODULE Spec2Model ----
(***************************************************************************)
(* ra_db: the input facts of the source database (file_text,               *)
(* file_relative_path, file_source_root, source_root, crate_graph), the    *)
(* derived functions resolve_relative_path, source_root_crates and parse   *)
(* with the engine's memo of the last two, and the cancellation guard      *)
(* check_canceled / catch_canceled (crates/ra_db/src/lib.rs).              *)
(***************************************************************************)
EXTENDS Integers, Sequences, FiniteSets, TLC

\* ------------------------------------------------------------------ bounds
NumFiles == 3
NumRoots == 2
NumCrates == 2
MaxPathLen == 2
MaxRelLen == 2
MaxDepth == 2
MaxRevision == 2

FileId == 1..NumFiles
SourceRootId == 1..NumRoots
CrateId == 1..NumCrates
\* the reader threads
Threads == {"t1", "t2"}

\* ------------------------------------------------------- relative paths
\* A RelativePathBuf is the sequence of its components.
NormalNames == {"lib", "foo"}
Components == NormalNames \cup {".", ".."}

RECURSIVE SeqsUpTo(_, _)
SeqsUpTo(S, n) ==
    IF n = 0 THEN {<<>>}
    ELSE LET shorter == SeqsUpTo(S, n - 1)
         IN  shorter \cup {Append(s, x) : s \in {u \in shorter : Len(u) = n - 1}, x \in S}

\* the paths files are registered under, and the relative_path arguments
FilePaths == SeqsUpTo(NormalNames, MaxPathLen)
RelPaths == SeqsUpTo(Components, MaxRelLen)

Texts == {"t0", "t1"}

\* ---------------------------------------------------------------- results
\* Option<T>, and the abort of a read of an input that was never set
None == [tag |-> "None", val |-> 0]
Some(x) == [tag |-> "Some", val |-> x]
Panicked == [tag |-> "Panic", val |-> 0]
\* the value of an input that was set
Value(x) == [tag |-> "Value", val |-> x]

\* what a closure returns, what unwinds out of it, Result<T, Canceled>
Values == {"v1", "v2"}
Bugs == {"bug1", "bug2"}

Ok(v) == [tag |-> "Ok", val |-> v]
Err(e) == [tag |-> "Err", val |-> e]
Propagated(p) == [tag |-> "Panic", val |-> p]
NoResult == [tag |-> "none", val |-> "none"]

\* per thread: the revision it started in, the depth of its last throw of
\* Canceled and the depth of the catch_canceled call that converted it
NoHist == [start |-> 0, thrown |-> 0, caught |-> 0]

VARIABLES
    db,                   \* the inputs: file_text, file_relative_path, file_source_root,
                          \* source_root, crate_graph
    pop_single_fails,     \* whether RelativePathBuf::pop fails on a one-segment path
    revision,             \* the runtime's current revision
    pending_revision,     \* the runtime's pending revision (> revision: a change waits)
    memo,                 \* the query engine's table of memoized derived values
    query,                \* the last query answered in this revision and its result
    wpc,                  \* position of the writer
    wchange,              \* the change the writer is applying
    pc,                   \* position of each reader thread
    depth,                \* number of catch_canceled calls active on the thread
    payload,              \* the panic payload unwinding the thread's stack
    ret,                  \* what the last catch_canceled call returned to its caller
    outcome,              \* what the outermost catch_canceled call produced
    reads,                \* what the computation read: revision and writer position
    last,                 \* the last step of the thread
    hist                  \* per thread: depth of the last throw and of the last catch

runtime == <<revision, pending_revision>>
writer == <<wpc, wchange>>
threads == <<pc, depth, payload, ret, outcome, reads, last, hist>>
vars == <<db, pop_single_fails, runtime, memo, query, writer, threads>>

\* ------------------------------------------------- RelativePathBuf (library)
\* pop: drop the last component; FALSE (path untouched) when there is no parent
pop(path) ==
    IF Len(path) = 0 THEN [ok |-> FALSE, path |-> path]
    ELSE IF Len(path) = 1 /\ pop_single_fails THEN [ok |-> FALSE, path |-> path]
    ELSE [ok |-> TRUE, path |-> SubSeq(path, 1, Len(path) - 1)]

push(path, rel) == path \o rel

RECURSIVE normalize_from(_, _)
normalize_from(stack, rest) ==
    IF rest = <<>> THEN stack
    ELSE LET c == Head(rest)
             next == IF c = "." THEN stack
                     ELSE IF c = ".."
                          THEN IF stack # <<>> /\ stack[Len(stack)] # ".."
                               THEN SubSeq(stack, 1, Len(stack) - 1)
                               ELSE Append(stack, "..")
                          ELSE Append(stack, c)
         IN  normalize_from(next, Tail(rest))

normalize(path) == normalize_from(<<>>, path)

\* ------------------------------------------------- SourceRoot, CrateGraph
\* A SourceRoot is its files table: relative path -> FileId.
file_by_relative_path(root, path) ==
    IF path \in DOMAIN root THEN Some(root[path]) ELSE None

Range(f) == {f[x] : x \in DOMAIN f}

RECURSIVE SeqOfSet(_)
SeqOfSet(S) ==
    IF S = {} THEN <<>>
    ELSE LET x == CHOOSE y \in S : TRUE IN <<x>> \o SeqOfSet(S \ {x})

\* the files of the table, in the table's own (arbitrary, fixed) order
walk(root) == [i \in 1..Len(SeqOfSet(DOMAIN root)) |-> root[SeqOfSet(DOMAIN root)[i]]]

\* A CrateGraph is its arena: CrateId -> root FileId.
crate_id_for_crate_root(graph, file_id) ==
    LET roots == {c \in DOMAIN graph : graph[c] = file_id}
    IN  IF roots = {} THEN None
        ELSE Some(CHOOSE c \in roots : \A d \in roots : c <= d)

\* a filter_map that collects from the last to the first
RECURSIVE filter_map_some_backwards(_)
filter_map_some_backwards(opts) ==
    IF opts = <<>> THEN <<>>
    ELSE filter_map_some_backwards(Tail(opts))
         \o (IF Head(opts).tag = "Some" THEN <<Head(opts).val>> ELSE <<>>)

RECURSIVE filter_map_some(_)
filter_map_some(opts) ==
    IF opts = <<>> THEN <<>>
    ELSE (IF Head(opts).tag = "Some" THEN <<Head(opts).val>> ELSE <<>>)
         \o filter_map_some(Tail(opts))

\* ------------------------------------------------------------ the inputs
\* The getters of the inputs: the value last set for the key; reading a key
\* that was never set aborts.
file_text(file_id) ==
    IF file_id \in DOMAIN db.file_text THEN Value(db.file_text[file_id]) ELSE Panicked

file_relative_path(file_id) ==
    IF file_id \in DOMAIN db.file_relative_path
    THEN Value(db.file_relative_path[file_id]) ELSE Panicked

\* file_source_root that gives a file never registered the first source root
file_source_root_or_first(file_id) ==
    IF file_id \in DOMAIN db.file_source_root
    THEN Value(db.file_source_root[file_id]) ELSE Value(1)

file_source_root(file_id) ==
    IF file_id \in DOMAIN db.file_source_root
    THEN Value(db.file_source_root[file_id]) ELSE Panicked

source_root(id) ==
    IF id \in DOMAIN db.source_root THEN Value(db.source_root[id]) ELSE Panicked

crate_graph == Value(db.crate_graph)

FileInputs == {"file_text", "file_relative_path", "file_source_root"}

input_get(input, key) ==
    CASE input = "file_text" -> file_text(key)
      [] input = "file_relative_path" -> file_relative_path(key)
      [] input = "file_source_root" -> file_source_root(key)
      [] input = "source_root" -> source_root(key)
      [] input = "crate_graph" -> crate_graph

\* ------------------------------------------------------- derived queries
\* resolve_relative_path without the reset of the path after a failed pop
resolve_relative_path_no_reset(anchor, relative_path) ==
    IF anchor \notin DOMAIN db.file_relative_path THEN Panicked
    ELSE LET popped == pop(db.file_relative_path[anchor])
             path == normalize(push(popped.path, relative_path))
         IN  IF anchor \notin DOMAIN db.file_source_root THEN Panicked
             ELSE IF db.file_source_root[anchor] \notin DOMAIN db.source_root THEN Panicked
             ELSE file_by_relative_path(db.source_root[db.file_source_root[anchor]], path)

\* resolve_relative_path without the normalize of the joined path
resolve_relative_path_no_normalize(anchor, relative_path) ==
    IF anchor \notin DOMAIN db.file_relative_path THEN Panicked
    ELSE LET popped == pop(db.file_relative_path[anchor])
             dir == IF ~popped.ok THEN <<>> ELSE popped.path
             path == push(dir, relative_path)
         IN  IF anchor \notin DOMAIN db.file_source_root THEN Panicked
             ELSE IF db.file_source_root[anchor] \notin DOMAIN db.source_root THEN Panicked
             ELSE file_by_relative_path(db.source_root[db.file_source_root[anchor]], path)

\* resolve_relative_path that joins relative_path to the anchor's path with
\* the file name left in
resolve_relative_path_no_pop(anchor, relative_path) ==
    IF anchor \notin DOMAIN db.file_relative_path THEN Panicked
    ELSE LET path == normalize(push(db.file_relative_path[anchor], relative_path))
         IN  IF anchor \notin DOMAIN db.file_source_root THEN Panicked
             ELSE IF db.file_source_root[anchor] \notin DOMAIN db.source_root THEN Panicked
             ELSE file_by_relative_path(db.source_root[db.file_source_root[anchor]], path)

\* resolve_relative_path that goes on to the other source roots when the
\* anchor's has no file at the path
resolve_relative_path_any_root(anchor, relative_path) ==
    IF anchor \notin DOMAIN db.file_relative_path THEN Panicked
    ELSE LET popped == pop(db.file_relative_path[anchor])
             dir == IF ~popped.ok THEN <<>> ELSE popped.path
             path == normalize(push(dir, relative_path))
             having == {r \in DOMAIN db.source_root : path \in DOMAIN db.source_root[r]}
         IN  IF anchor \notin DOMAIN db.file_source_root THEN Panicked
             ELSE IF db.file_source_root[anchor] \notin DOMAIN db.source_root THEN Panicked
             ELSE IF db.file_source_root[anchor] \in having \/ having = {}
                  THEN file_by_relative_path(db.source_root[db.file_source_root[anchor]], path)
                  ELSE file_by_relative_path(db.source_root[CHOOSE r \in having : TRUE], path)

resolve_relative_path(anchor, relative_path) ==
    IF anchor \notin DOMAIN db.file_relative_path THEN Panicked
    ELSE LET popped == pop(db.file_relative_path[anchor])
             dir == IF ~popped.ok THEN <<>> ELSE popped.path
             path == normalize(push(dir, relative_path))
         IN  IF anchor \notin DOMAIN db.file_source_root THEN Panicked
             ELSE IF db.file_source_root[anchor] \notin DOMAIN db.source_root THEN Panicked
             ELSE file_by_relative_path(db.source_root[db.file_source_root[anchor]], path)

source_root_crates(id) ==
    IF id \notin DOMAIN db.source_root THEN Panicked
    ELSE LET files == walk(db.source_root[id])
         IN  [tag |-> "Vec",
              val |-> filter_map_some([i \in 1..Len(files) |->
                          crate_id_for_crate_root(db.crate_graph, files[i])])]

\* the parser: total, and the tree is that of the text and of nothing else
SourceFile_parse(text) == [tag |-> "Tree", val |-> text]

\* parse_query that parses the text the file had at first
parse_query_first_text(file_id) ==
    IF file_id \notin DOMAIN db.file_text THEN Panicked
    ELSE SourceFile_parse("t0")

parse_query(file_id) ==
    IF file_id \notin DOMAIN db.file_text THEN Panicked
    ELSE SourceFile_parse(db.file_text[file_id])

\* the inputs a derived function reads through the database
parse_query_reads(file_id) == {<<"file_text", file_id>>}

\* source_root_crates with a crate graph that is not read through the database
source_root_crates_reads_no_graph(id) == {<<"source_root", id>>}

source_root_crates_reads(id) == {<<"source_root", id>>, <<"crate_graph", 0>>}

\* --------------------------------------------------- memoized invocation
\* The engine keeps the value of a derived query with the inputs it was
\* computed from, until one of them is set again.
NoMemo == [k \in {} |-> 0]

\* the call of a memoized query: its value and the table after the call. An
\* abort of the function leaves the table as it is.
memoized(key, value, deps) ==
    IF key \in DOMAIN memo THEN [value |-> memo[key].value, memo |-> memo]
    ELSE IF value.tag = "Panic" THEN [value |-> value, memo |-> memo]
    ELSE [value |-> value,
          memo |-> (key :> [value |-> value, deps |-> deps]) @@ memo]

\* the table once the input is set again
invalidated(input) ==
    [k \in {j \in DOMAIN memo : input \notin memo[j].deps} |-> memo[k]]

\* SourceDatabase::parse and SourceDatabase::source_root_crates
db_parse(file_id) ==
    memoized(<<"parse", file_id>>, parse_query(file_id), parse_query_reads(file_id))

db_source_root_crates(id) ==
    memoized(<<"source_root_crates", id>>, source_root_crates(id),
             source_root_crates_reads(id))

\* ---------------------------------------------------- the inputs' setters
\* One set of one input fact: the unit in which the runtime changes the inputs.
apply_set(d, s) ==
    CASE s.input = "file_text" ->
            [d EXCEPT !.file_text = (s.key :> s.val) @@ @]
      [] s.input = "file_relative_path" ->
            [d EXCEPT !.file_relative_path = (s.key :> s.val) @@ @]
      [] s.input = "file_source_root" ->
            [d EXCEPT !.file_source_root = (s.key :> s.val) @@ @]
      [] s.input = "source_root" ->
            [d EXCEPT !.source_root = (s.key :> s.val) @@ @]
      [] s.input = "crate_graph" ->
            [d EXCEPT !.crate_graph = s.val]

RECURSIVE apply_all(_, _)
apply_all(d, sets) ==
    IF sets = <<>> THEN d ELSE apply_all(apply_set(d, Head(sets)), Tail(sets))

Set(input, key, val) == [input |-> input, key |-> key, val |-> val]

\* a files table without the entries of file f
without_file(table, f) == [p \in {q \in DOMAIN table : table[q] # f} |-> table[p]]

table_of(d, r) == IF r \in DOMAIN d.source_root THEN d.source_root[r] ELSE <<>>

\* The driver's changes, each as the input sets it makes:
\*   change_file:     new text of a registered file
\*   add_file:        text, path, source root and the root's table, together
\*                    (also a rename or a move of a registered file)
\*   set_crate_graph: a new crate graph
sets_of(d, c) ==
    CASE c.kind = "change_file" -> <<Set("file_text", c.file, c.text)>>
      [] c.kind = "add_file" ->
            LET old == IF c.file \in DOMAIN d.file_source_root
                       THEN d.file_source_root[c.file] ELSE c.root
                moved == old # c.root
                new_table == (c.path :> c.file) @@ without_file(table_of(d, c.root), c.file)
            IN  <<Set("file_text", c.file, c.text),
                  Set("file_relative_path", c.file, c.path),
                  Set("file_source_root", c.file, c.root)>>
                \o (IF moved
                    THEN <<Set("source_root", old, without_file(table_of(d, old), c.file))>>
                    ELSE <<>>)
                \o <<Set("source_root", c.root, new_table)>>
      [] c.kind = "set_crate_graph" -> <<Set("crate_graph", 0, c.graph)>>

Registered(d) == DOMAIN d.file_text

CrateGraphs(d) ==
    UNION {[cs -> Registered(d)] : cs \in SUBSET CrateId}

\* the changes that give a file its text, path and source root: the path is
\* free in the source root, or the file's own
AddFiles(d) ==
    {c \in [kind : {"add_file"}, file : FileId, root : SourceRootId,
            path : FilePaths, text : Texts] :
        \/ c.path \notin DOMAIN table_of(d, c.root)
        \/ table_of(d, c.root)[c.path] = c.file}

\* the changes the driver may make to inputs d
Changes(d) ==
    {[kind |-> "change_file", file |-> f, text |-> t] :
        f \in Registered(d), t \in Texts}
    \cup AddFiles(d)
    \cup {[kind |-> "set_crate_graph", graph |-> g] : g \in CrateGraphs(d)}

\* ------------------------------------------------------------------- Init
\* files 1 and 2 in source root 1, crate 1 rooted at file 1
InitDb ==
    [file_text |-> (1 :> "t0") @@ (2 :> "t0"),
     file_relative_path |-> (1 :> <<"lib">>) @@ (2 :> <<"foo", "lib">>),
     file_source_root |-> (1 :> 1) @@ (2 :> 1),
     source_root |-> (1 :> ((<<"lib">> :> 1) @@ (<<"foo", "lib">> :> 2))),
     crate_graph |-> (1 :> 1)]

NoQuery ==
    [op |-> "none", anchor |-> 0, rel |-> <<>>, id |-> 0, rev |-> 0, res |-> None,
     again |-> FALSE]

Init ==
    /\ db = InitDb
    /\ pop_single_fails = TRUE
    /\ revision = 1
    /\ pending_revision = 1
    /\ memo = NoMemo
    /\ query = NoQuery
    /\ wpc = "idle"
    /\ wchange = <<>>
    /\ pc = [t \in Threads |-> "idle"]
    /\ depth = [t \in Threads |-> 0]
    /\ payload = [t \in Threads |-> "none"]
    /\ ret = [t \in Threads |-> NoResult]
    /\ outcome = [t \in Threads |-> NoResult]
    /\ reads = [t \in Threads |-> {}]
    /\ last = [t \in Threads |-> "none"]
    /\ hist = [t \in Threads |-> NoHist]

\* ------------------------------------------- the database, single-threaded
\* the inputs the queries are asked on: the initial ones, and those one change
\* of the driver away from them
Stores == {InitDb} \cup {apply_all(InitDb, sets_of(InitDb, c)) : c \in Changes(InitDb)}

DbInit ==
    /\ db \in Stores
    /\ pop_single_fails \in BOOLEAN
    /\ revision = 1
    /\ pending_revision = 1
    /\ memo = NoMemo
    /\ query = NoQuery
    /\ wpc = "idle"
    /\ wchange = <<>>
    /\ pc = [t \in Threads |-> "idle"]
    /\ depth = [t \in Threads |-> 0]
    /\ payload = [t \in Threads |-> "none"]
    /\ ret = [t \in Threads |-> NoResult]
    /\ outcome = [t \in Threads |-> NoResult]
    /\ reads = [t \in Threads |-> {}]
    /\ last = [t \in Threads |-> "none"]
    /\ hist = [t \in Threads |-> NoHist]

QueryResolve(anchor, rel) ==
    /\ query = NoQuery
    /\ query' = [op |-> "resolve_relative_path", anchor |-> anchor, rel |-> rel,
                 id |-> 0, rev |-> revision, res |-> resolve_relative_path(anchor, rel),
                 again |-> FALSE]
    /\ UNCHANGED <<db, pop_single_fails, memo, runtime, writer, threads>>

QuerySourceRootCrates(id) ==
    /\ query = NoQuery
    /\ query' = [op |-> "source_root_crates", anchor |-> 0, rel |-> <<>>,
                 id |-> id, rev |-> revision, res |-> source_root_crates(id),
                 again |-> FALSE]
    /\ UNCHANGED <<db, pop_single_fails, memo, runtime, writer, threads>>

QueryInput(input, key) ==
    /\ query = NoQuery
    /\ query' = [op |-> input, anchor |-> 0, rel |-> <<>>,
                 id |-> key, rev |-> revision, res |-> input_get(input, key),
                 again |-> FALSE]
    /\ UNCHANGED <<db, pop_single_fails, memo, runtime, writer, threads>>

DbNext ==
    \/ \E anchor \in FileId, rel \in RelPaths : QueryResolve(anchor, rel)
    \/ \E id \in SourceRootId : QuerySourceRootCrates(id)
    \/ \E input \in FileInputs, file_id \in FileId : QueryInput(input, file_id)
    \/ \E id \in SourceRootId : QueryInput("source_root", id)
    \/ QueryInput("crate_graph", 0)

DbSpec == DbInit /\ [][DbNext]_vars

\* ------------------------------------------------------ cancellation guard
\* the runtime: a change is pending that supersedes the current revision
is_current_revision_canceled == pending_revision > revision

\* Canceled::throw: unwind with the Canceled payload
Canceled_throw == "Canceled"

\* check_canceled that throws whatever the runtime reports
check_canceled_always == Canceled_throw

\* check_canceled that never throws
check_canceled_never == "none"

\* check_canceled: the payload it unwinds with, or "none" when it returns
check_canceled ==
    IF is_current_revision_canceled THEN Canceled_throw ELSE "none"

\* catch_canceled that resumes the unwind whatever the payload is
catch_canceled_rethrows(unwound) ==
    IF unwound.tag = "Ok" THEN [kind |-> "return", val |-> Ok(unwound.val)]
    ELSE [kind |-> "resume_unwind", val |-> unwound.val]

\* catch_canceled that reports every panic as Canceled
catch_canceled_swallows(unwound) ==
    IF unwound.tag = "Ok" THEN [kind |-> "return", val |-> Ok(unwound.val)]
    ELSE [kind |-> "return", val |-> Err("Canceled")]

\* catch_canceled that returns a value in place of Canceled
catch_canceled_defaults(unwound) ==
    IF unwound.tag = "Ok" THEN [kind |-> "return", val |-> Ok(unwound.val)]
    ELSE IF unwound.val = "Canceled"
         THEN [kind |-> "return", val |-> Ok("v1")]
         ELSE [kind |-> "resume_unwind", val |-> unwound.val]

\* catch_canceled, given what catch_unwind(|| f(self)) produced: Ok(value), or
\* Err(payload) of the panic that unwound out of f. It returns a Result to its
\* caller or resumes the unwind with the same payload.
catch_canceled(unwound) ==
    IF unwound.tag = "Ok" THEN [kind |-> "return", val |-> Ok(unwound.val)]
    ELSE IF unwound.val = "Canceled"
         THEN [kind |-> "return", val |-> Err("Canceled")]
         ELSE [kind |-> "resume_unwind", val |-> unwound.val]

\* ------------------------------------------------------------ the writer
InFlight(t) == pc[t] \in {"running", "unwinding"}

\* the changes the writer makes while computations run: file 2 moves to
\* another source root, with a new path and a new text
WriterChanges(d) ==
    {c \in Changes(d) : /\ c.kind = "add_file"
                        /\ c.file = 2
                        /\ c.root # d.file_source_root[2]
                        /\ c.path = <<"foo">>
                        /\ c.text = "t1"}

\* A mutation begins by making the next revision pending: the current
\* revision is canceled from here on.
RequestChange(c) ==
    /\ wpc = "idle"
    /\ revision < MaxRevision
    /\ pending_revision' = revision + 1
    /\ wchange' = sets_of(db, c)
    /\ wpc' = "pending"
    /\ UNCHANGED <<db, pop_single_fails, memo, revision, query, threads>>

\* a writer that does not wait for the computations in flight
AcquireWrite_no_wait ==
    /\ wpc = "pending"
    /\ revision' = pending_revision
    /\ wpc' = "writing"
    /\ query' = NoQuery
    /\ UNCHANGED <<db, pop_single_fails, memo, pending_revision, wchange, threads>>

\* The writer gets exclusive access once no computation is in flight. The
\* answers given in the revision before are of no use from here on.
AcquireWrite ==
    /\ wpc = "pending"
    /\ \A t \in Threads : ~InFlight(t)
    /\ revision' = pending_revision
    /\ wpc' = "writing"
    /\ query' = NoQuery
    /\ UNCHANGED <<db, pop_single_fails, memo, pending_revision, wchange, threads>>

WriteInput ==
    /\ wpc = "writing"
    /\ wchange # <<>>
    /\ db' = apply_set(db, Head(wchange))
    /\ memo' = invalidated(<<Head(wchange).input, Head(wchange).key>>)
    /\ wchange' = Tail(wchange)
    /\ UNCHANGED <<pop_single_fails, runtime, query, wpc, threads>>

ReleaseWrite ==
    /\ wpc = "writing"
    /\ wchange = <<>>
    /\ wpc' = "idle"
    /\ UNCHANGED <<db, pop_single_fails, memo, runtime, query, wchange, threads>>

\* ------------------------------------------------------- reader threads
\* the inputs agree with each other: every registered file is in the table of
\* its source root under its path, and the tables hold nothing else
Consistent(d) ==
    /\ \A f \in DOMAIN d.file_text :
          /\ f \in DOMAIN d.file_relative_path
          /\ f \in DOMAIN d.file_source_root
          /\ d.file_source_root[f] \in DOMAIN d.source_root
          /\ d.file_relative_path[f] \in DOMAIN d.source_root[d.file_source_root[f]]
          /\ d.source_root[d.file_source_root[f]][d.file_relative_path[f]] = f
    /\ \A r \in DOMAIN d.source_root : \A p \in DOMAIN d.source_root[r] :
          LET f == d.source_root[r][p]
          IN  /\ f \in DOMAIN d.file_text
              /\ f \in DOMAIN d.file_source_root /\ d.file_source_root[f] = r
              /\ f \in DOMAIN d.file_relative_path /\ d.file_relative_path[f] = p

\* A request starts: the API boundary calls catch_canceled(f).
Start(t) ==
    /\ pc[t] = "idle"
    /\ wpc = "idle"
    /\ pc' = [pc EXCEPT ![t] = "running"]
    /\ depth' = [depth EXCEPT ![t] = 1]
    /\ hist' = [hist EXCEPT ![t] = [NoHist EXCEPT !.start = revision]]
    /\ last' = [last EXCEPT ![t] = "step"]
    /\ UNCHANGED <<db, pop_single_fails, memo, runtime, query, writer,
                   payload, ret, outcome, reads>>

\* f goes on: the Result of the last nested call and the record of the last
\* cancellation are those of the step before only.
Forget(t) ==
    /\ ret' = [ret EXCEPT ![t] = NoResult]
    /\ hist' = [hist EXCEPT ![t].thrown = 0, ![t].caught = 0]

\* f calls catch_canceled(g) itself.
Nest(t) ==
    /\ pc[t] = "running"
    /\ depth[t] < MaxDepth
    /\ depth' = [depth EXCEPT ![t] = @ + 1]
    /\ last' = [last EXCEPT ![t] = "step"]
    /\ Forget(t)
    /\ UNCHANGED <<db, pop_single_fails, memo, runtime, query, writer,
                   pc, payload, outcome, reads>>

\* a read of input facts that is itself a cancellation point
ReadInput_checks(t) ==
    /\ pc[t] = "running"
    /\ reads' = [reads EXCEPT ![t] = @ \cup {[rev |-> revision, whole |-> Consistent(db)]}]
    /\ last' = [last EXCEPT ![t] = "step"]
    /\ ret' = [ret EXCEPT ![t] = NoResult]
    /\ IF is_current_revision_canceled
       THEN /\ pc' = [pc EXCEPT ![t] = "unwinding"]
            /\ payload' = [payload EXCEPT ![t] = Canceled_throw]
            /\ hist' = [hist EXCEPT ![t].thrown = depth[t], ![t].caught = 0]
       ELSE /\ hist' = [hist EXCEPT ![t].thrown = 0, ![t].caught = 0]
            /\ UNCHANGED <<pc, payload>>
    /\ UNCHANGED <<db, pop_single_fails, memo, runtime, query, writer, depth, outcome>>

\* f reads input facts.
ReadInput(t) ==
    /\ pc[t] = "running"
    /\ reads' = [reads EXCEPT ![t] = @ \cup {[rev |-> revision, whole |-> Consistent(db)]}]
    /\ last' = [last EXCEPT ![t] = "step"]
    /\ Forget(t)
    /\ UNCHANGED <<db, pop_single_fails, memo, runtime, query, writer,
                   pc, depth, payload, outcome>>

\* f computes without polling.
Work(t) ==
    /\ pc[t] = "running"
    /\ last[t] # "work"
    /\ last' = [last EXCEPT ![t] = "work"]
    /\ Forget(t)
    /\ UNCHANGED <<db, pop_single_fails, memo, runtime, query, writer,
                   pc, depth, payload, outcome, reads>>

\* f calls check_canceled.
CheckCanceled(t) ==
    /\ pc[t] = "running"
    /\ LET thrown == check_canceled
       IN  IF thrown = "none"
           THEN /\ last' = [last EXCEPT ![t] = "check_ok"]
                /\ hist' = [hist EXCEPT ![t].thrown = 0, ![t].caught = 0]
                /\ UNCHANGED <<pc, payload>>
           ELSE /\ last' = [last EXCEPT ![t] = "throw"]
                /\ pc' = [pc EXCEPT ![t] = "unwinding"]
                /\ payload' = [payload EXCEPT ![t] = thrown]
                /\ hist' = [hist EXCEPT ![t].thrown = depth[t], ![t].caught = 0]
    /\ ret' = [ret EXCEPT ![t] = NoResult]
    /\ UNCHANGED <<db, pop_single_fails, memo, runtime, query, writer,
                   depth, outcome, reads>>

\* f aborts with a panic of its own.
PanicBug(t, b) ==
    /\ pc[t] = "running"
    /\ pc' = [pc EXCEPT ![t] = "unwinding"]
    /\ payload' = [payload EXCEPT ![t] = b]
    /\ last' = [last EXCEPT ![t] = "step"]
    /\ Forget(t)
    /\ UNCHANGED <<db, pop_single_fails, memo, runtime, query, writer,
                   depth, outcome, reads>>

\* The innermost catch_canceled call ends with r: it returns r.val to its
\* caller, or the unwind goes on into the caller with payload r.val.
Leave(t, r, step) ==
    /\ depth' = [depth EXCEPT ![t] = @ - 1]
    /\ last' = [last EXCEPT ![t] = step]
    /\ hist' = [hist EXCEPT ![t].caught =
                    IF r.kind = "return" /\ r.val = Err("Canceled") THEN depth[t] ELSE 0,
                             ![t].thrown =
                    IF r.kind = "return" /\ r.val.tag = "Ok" THEN 0 ELSE @]
    /\ IF r.kind = "return"
       THEN /\ payload' = [payload EXCEPT ![t] = "none"]
            /\ IF depth[t] = 1
               THEN /\ pc' = [pc EXCEPT ![t] = "done"]
                    /\ outcome' = [outcome EXCEPT ![t] = r.val]
                    /\ ret' = [ret EXCEPT ![t] = NoResult]
               ELSE /\ pc' = [pc EXCEPT ![t] = "running"]
                    /\ ret' = [ret EXCEPT ![t] = r.val]
                    /\ UNCHANGED outcome
       ELSE /\ payload' = [payload EXCEPT ![t] = r.val]
            /\ ret' = [ret EXCEPT ![t] = NoResult]
            /\ IF depth[t] = 1
               THEN /\ pc' = [pc EXCEPT ![t] = "done"]
                    /\ outcome' = [outcome EXCEPT ![t] = Propagated(r.val)]
               ELSE /\ pc' = [pc EXCEPT ![t] = "unwinding"]
                    /\ UNCHANGED outcome
    /\ UNCHANGED <<db, pop_single_fails, memo, runtime, query, writer, reads>>

\* The closure of the innermost catch_canceled call returns v.
Return(t, v) ==
    /\ pc[t] = "running"
    /\ Leave(t, catch_canceled(Ok(v)), "return")

\* A panic reaches the innermost catch_canceled call.
Unwind(t) ==
    /\ pc[t] = "unwinding"
    /\ Leave(t, catch_canceled(Err(payload[t])), "catch")

\* The caller of the outermost catch_canceled takes the outcome.
Finish(t) ==
    /\ pc[t] = "done"
    /\ pc' = [pc EXCEPT ![t] = "idle"]
    /\ payload' = [payload EXCEPT ![t] = "none"]
    /\ outcome' = [outcome EXCEPT ![t] = NoResult]
    /\ reads' = [reads EXCEPT ![t] = {}]
    /\ last' = [last EXCEPT ![t] = "none"]
    /\ hist' = [hist EXCEPT ![t] = NoHist]
    /\ UNCHANGED <<db, pop_single_fails, memo, runtime, query, writer, depth, ret>>

ThreadStep(t) ==
    \/ Start(t)
    \/ Nest(t)
    \/ ReadInput(t)
    \/ Work(t)
    \/ CheckCanceled(t)
    \/ \E b \in Bugs : PanicBug(t, b)
    \/ \E v \in Values : Return(t, v)
    \/ Unwind(t)
    \/ Finish(t)

Next ==
    \/ \E c \in WriterChanges(db) : RequestChange(c)
    \/ AcquireWrite
    \/ WriteInput
    \/ ReleaseWrite
    \/ \E t \in Threads : ThreadStep(t)

Spec == Init /\ [][Next]_vars

\* Scheduling: the writer and an unwinding thread go on, and a running
\* computation polls check_canceled again and again.
FairSpec ==
    /\ Spec
    /\ WF_vars(AcquireWrite)
    /\ WF_vars(WriteInput)
    /\ WF_vars(ReleaseWrite)
    /\ \A t \in Threads : WF_vars(Unwind(t)) /\ WF_vars(CheckCanceled(t))

\* ------------------------------------------ requests through the engine
\* the payload of the abort of a read of an input that was never set
UnsetInput == "unset"

\* the paths asked of resolve_relative_path
AskedPaths == {<<n>> : n \in NormalNames}

\* the calls of the database a request makes
Questions ==
    {[op |-> "parse", anchor |-> 0, rel |-> <<>>, id |-> f] : f \in FileId}
    \cup {[op |-> "source_root_crates", anchor |-> 0, rel |-> <<>>, id |-> r] :
            r \in SourceRootId}
    \cup {[op |-> "resolve_relative_path", anchor |-> f, rel |-> p, id |-> 0] :
            f \in FileId, p \in AskedPaths}
    \cup {[op |-> i, anchor |-> 0, rel |-> <<>>, id |-> f] :
            i \in FileInputs, f \in FileId}
    \cup {[op |-> "source_root", anchor |-> 0, rel |-> <<>>, id |-> r] :
            r \in SourceRootId}
    \cup {[op |-> "crate_graph", anchor |-> 0, rel |-> <<>>, id |-> 0]}

\* the value of the call and the engine's table after it
answer(q) ==
    CASE q.op = "parse" -> db_parse(q.id)
      [] q.op = "source_root_crates" -> db_source_root_crates(q.id)
      [] q.op = "resolve_relative_path" ->
            [value |-> resolve_relative_path(q.anchor, q.rel), memo |-> memo]
      [] OTHER -> [value |-> input_get(q.op, q.id), memo |-> memo]

SameQuestion(q) ==
    /\ query.op = q.op /\ query.anchor = q.anchor
    /\ query.rel = q.rel /\ query.id = q.id
    /\ query.rev = revision

\* a request that sets the text of a file never registered
Ask_registers(q) ==
    /\ wpc \in {"idle", "pending"}
    /\ query' = [op |-> q.op, anchor |-> q.anchor, rel |-> q.rel, id |-> q.id,
                 rev |-> revision, res |-> Err("Canceled"), again |-> SameQuestion(q)]
    /\ db' = IF q.op = "parse" /\ q.id \notin DOMAIN db.file_text
             THEN apply_set(db, Set("file_text", q.id, "t0")) ELSE db
    /\ UNCHANGED <<pop_single_fails, runtime, memo, writer, threads>>

\* A request: catch_canceled(|db| { db.check_canceled(); the call }). It
\* runs while no change is being written; with a change pending it is
\* canceled at its check_canceled.
Ask(q) ==
    /\ wpc \in {"idle", "pending"}
    /\ LET thrown == check_canceled
           a == answer(q)
           unwound == IF thrown # "none" THEN Err(thrown)
                      ELSE IF a.value.tag = "Panic" THEN Err(UnsetInput)
                      ELSE Ok(a.value)
           r == catch_canceled(unwound)
       IN  /\ query' = [op |-> q.op, anchor |-> q.anchor, rel |-> q.rel, id |-> q.id,
                        rev |-> revision,
                        res |-> IF r.kind = "return" THEN r.val ELSE Propagated(r.val),
                        again |-> SameQuestion(q)]
           /\ memo' = IF thrown = "none" THEN a.memo ELSE memo
    /\ UNCHANGED <<db, pop_single_fails, runtime, writer, threads>>

\* The engine drops a memoized value (least-recently-used eviction).
Evict(key) ==
    /\ key \in DOMAIN memo
    /\ memo' = [k \in DOMAIN memo \ {key} |-> memo[k]]
    /\ UNCHANGED <<db, pop_single_fails, runtime, query, writer, threads>>

\* the changes the driver makes between requests: file 1 moves to another
\* source root with another text, or the crate graph becomes that of another
\* crate with root file 1
DriverChanges(d) ==
    {c \in Changes(d) : /\ c.kind = "add_file"
                        /\ c.file = 1
                        /\ c.root # d.file_source_root[1]
                        /\ c.path = <<"lib">>
                        /\ c.text # d.file_text[1]}
    \cup {c \in Changes(d) : /\ c.kind = "set_crate_graph"
                            /\ Cardinality(DOMAIN c.graph) = 1
                            /\ Range(c.graph) = {1}
                            /\ c.graph # d.crate_graph}

MemoNext ==
    \/ \E c \in DriverChanges(db) : RequestChange(c)
    \/ AcquireWrite
    \/ WriteInput
    \/ ReleaseWrite
    \/ \E q \in Questions : Ask(q)
    \/ \E key \in DOMAIN memo : Evict(key)

MemoSpec == Init /\ [][MemoNext]_vars

\* ------------------------------------------- properties of the cancellation
\* C1: a mutation is applied only while no computation is in flight, so every
\* read of a computation is of the revision it started in: no computation reads
\* input facts of two revisions.
C1_NeverStraddle ==
    \A t \in Threads :
        /\ wpc = "writing" => ~InFlight(t)
        /\ InFlight(t) => hist[t].start = revision
        /\ \A r \in reads[t] : r.rev = hist[t].start

C1_Witness ==
    \E t, u \in Threads :
        /\ outcome[t].tag = "Ok" /\ reads[t] # {} /\ hist[t].start < revision
        /\ outcome[u] = Err("Canceled") /\ reads[u] # {} /\ hist[u].start < revision

\* C2: when the Canceled payload unwinds out of f, the catch_canceled call
\* returns Err(Canceled) to its caller and the unwind ends there.
C2_CanceledIntercepted ==
    [][\A t \in Threads :
          (Unwind(t) /\ payload[t] = "Canceled") =>
              /\ payload'[t] = "none"
              /\ pc'[t] # "unwinding"
              /\ IF depth[t] = 1
                 THEN pc'[t] = "done" /\ outcome'[t] = Err("Canceled")
                 ELSE pc'[t] = "running" /\ ret'[t] = Err("Canceled")]_vars

C2_Witness ==
    \E t \in Threads : last[t] = "catch" /\ pc[t] = "done" /\ outcome[t] = Err("Canceled")

\* C3: when another payload unwinds out of f, the catch_canceled call resumes
\* the unwind with the same payload: it returns neither Canceled nor a value.
C3_OtherPanicResumed ==
    [][\A t \in Threads :
          (Unwind(t) /\ payload[t] \in Bugs) =>
              /\ payload'[t] = payload[t]
              /\ ret'[t] = NoResult
              /\ IF depth[t] = 1
                 THEN pc'[t] = "done" /\ outcome'[t] = Propagated(payload[t])
                 ELSE pc'[t] = "unwinding" /\ outcome'[t] = outcome[t]]_vars

C3_Witness ==
    \E t \in Threads : last[t] = "catch" /\ pc[t] = "done" /\ outcome[t] = Propagated("bug2")

\* C4: check_canceled throws Canceled if and only if a pending change
\* supersedes the revision the computation started in; otherwise it returns
\* and the inputs, the runtime and the thread's stack are as before.
C4_CheckCanceledIff ==
    [][\A t \in Threads :
          CheckCanceled(t) =>
              /\ (pc'[t] = "unwinding" /\ payload'[t] = "Canceled")
                    <=> pending_revision > hist[t].start
              /\ is_current_revision_canceled <=> pending_revision > hist[t].start
              /\ ~(pending_revision > hist[t].start) =>
                    /\ pc'[t] = "running"
                    /\ UNCHANGED <<db, runtime, writer, depth, payload, outcome, reads>>]_vars

C4_Witness ==
    \E t, u \in Threads : last[t] = "check_ok" /\ last[u] = "throw" /\ wpc = "pending"

\* C5: a computation whose revision was bumped aborts at its next
\* check_canceled, the abort is returned as Canceled by the catch_canceled
\* call it reaches, and a computation in flight never sees a mutation half
\* applied.
C5_CancellationCorrect ==
    /\ [](\A t \in Threads :
            /\ InFlight(t) => (wpc # "writing" /\ Consistent(db))
            /\ \A r \in reads[t] : r.whole)
    /\ [][\A t \in Threads :
            /\ (CheckCanceled(t) /\ pending_revision > hist[t].start) =>
                  (pc'[t] = "unwinding" /\ payload'[t] = "Canceled")
            /\ (Unwind(t) /\ payload[t] = "Canceled") =>
                  /\ payload'[t] = "none"
                  /\ Err("Canceled") = (IF depth[t] = 1 THEN outcome'[t] ELSE ret'[t])]_vars

C5_Witness ==
    \E t \in Threads :
        /\ pc[t] = "done" /\ outcome[t] = Err("Canceled")
        /\ reads[t] # {} /\ wpc = "writing" /\ ~Consistent(db)

\* C6, as claimed: with computations that poll check_canceled, a requested
\* mutation completes and a computation in flight ends with a value or with
\* Canceled.
C6_EditsLive ==
    /\ (wpc = "pending") ~> (wpc = "idle")
    /\ \A t \in Threads :
          (InFlight(t) /\ wpc = "pending")
              ~> (pc[t] = "done" /\ outcome[t].tag \in {"Ok", "Err"})

\* a computation that stays in flight while a change is pending calls
\* check_canceled directly under its outermost catch_canceled call again and
\* again
PollsOutermost(t) ==
    <>[](InFlight(t) /\ wpc = "pending") => []<><<CheckCanceled(t) /\ depth[t] = 1>>_vars

\* C6: when every computation also polls check_canceled outside any nested
\* catch_canceled call, a requested mutation completes and a computation in
\* flight ends: with a value, with Canceled, or with the resumed panic of f.
C6_EditsLiveOutermost ==
    (\A t \in Threads : PollsOutermost(t)) =>
        /\ (wpc = "pending") ~> (wpc = "idle")
        /\ \A t \in Threads :
              (InFlight(t) /\ wpc = "pending")
                  ~> (pc[t] = "done" /\ outcome[t].tag \in {"Ok", "Err", "Panic"})

C6_Witness ==
    \E t \in Threads :
        /\ wpc = "idle" /\ revision = MaxRevision
        /\ pc[t] = "done" /\ outcome[t] = Err("Canceled") /\ hist[t].thrown = 1

\* C7, as claimed: a cancellation is converted into Canceled only by the
\* outermost catch_canceled call.
C7_OutermostConverts ==
    \A t \in Threads : hist[t].caught # 0 => hist[t].caught = 1

\* C7: a cancellation thrown by check_canceled is converted into Canceled by
\* exactly one catch_canceled call, the innermost one around that
\* check_canceled call; it never unwinds past it.
C7_InnermostConverts ==
    \A t \in Threads :
        /\ (pc[t] = "unwinding" /\ payload[t] = "Canceled") =>
              (depth[t] = hist[t].thrown /\ hist[t].caught = 0)
        /\ hist[t].caught # 0 => hist[t].caught = hist[t].thrown

C7_Witness ==
    \E t \in Threads : hist[t].caught = 2 /\ pc[t] = "running" /\ ret[t] = Err("Canceled")

\* ------------------------------------------------ properties of the queries
\* the last query was answered from the inputs as they are now
QueryCurrent(op) == query.op = op /\ query.rev = revision

\* the directory of a file path: all its segments but the last
DirOf(path) == IF Len(path) <= 1 THEN <<>> ELSE SubSeq(path, 1, Len(path) - 1)

\* C8: source_root_crates(root) holds a crate if and only if the crate's root
\* file is one of the files of the source root, also when several crates
\* designate the same root file.
C8_EveryCrateOfRoot ==
    (QueryCurrent("source_root_crates") /\ query.res.tag = "Vec") =>
        \A c \in DOMAIN db.crate_graph :
            (c \in Range(query.res.val))
                <=> (db.crate_graph[c] \in Range(db.source_root[query.id]))

\* C9: for a registered anchor, resolve_relative_path is Some(f) exactly for the
\* file f of the anchor's source root whose relative path is
\* normalize(directory of the anchor's path joined with relative_path), and is
\* None, not an abort, when the source root has no such file.
C9_ResolveExact ==
    (QueryCurrent("resolve_relative_path") /\ query.anchor \in Registered(db)) =>
        LET root == db.file_source_root[query.anchor]
            target == normalize(DirOf(db.file_relative_path[query.anchor]) \o query.rel)
            hits == {f \in Registered(db) :
                        /\ db.file_source_root[f] = root
                        /\ db.file_relative_path[f] = target}
        IN  /\ query.res.tag \in {"Some", "None"}
            /\ \A f \in FileId : (query.res = Some(f)) <=> (f \in hits)
            /\ (hits = {}) <=> (query.res = None)

C9_Witness ==
    /\ QueryCurrent("resolve_relative_path")
    /\ query.res.tag = "Some"
    /\ ".." \in Range(query.rel)
    /\ Len(db.file_relative_path[query.anchor]) = 2

\* C10: when the anchor's path has one segment or none, the path looked up in
\* the anchor's source root is normalize(relative_path) itself.
C10_SingleSegmentAnchor ==
    (/\ QueryCurrent("resolve_relative_path")
     /\ query.anchor \in Registered(db)
     /\ Len(db.file_relative_path[query.anchor]) <= 1) =>
        query.res = file_by_relative_path(
                        db.source_root[db.file_source_root[query.anchor]],
                        normalize(query.rel))

C10_Witness ==
    /\ QueryCurrent("resolve_relative_path")
    /\ query.anchor \in Registered(db)
    /\ Len(db.file_relative_path[query.anchor]) = 1
    /\ pop_single_fails
    /\ query.res.tag = "Some"
    /\ query.res.val # query.anchor

\* the source roots other than root whose table has a file at path
OtherRootsWith(root, path) ==
    {r \in DOMAIN db.source_root \ {root} : path \in DOMAIN db.source_root[r]}

\* C11: for a registered anchor, a file returned by resolve_relative_path is
\* a file of the anchor's source root, and when only other source roots have a
\* file at the normalized path the result is None.
C11_CrossRootIsolation ==
    (QueryCurrent("resolve_relative_path") /\ query.anchor \in Registered(db)) =>
        LET root == db.file_source_root[query.anchor]
            target == normalize(DirOf(db.file_relative_path[query.anchor]) \o query.rel)
        IN  /\ query.res.tag = "Some" =>
                  /\ db.file_source_root[query.res.val] = root
                  /\ query.res.val \in Range(db.source_root[root])
            /\ (/\ target \notin DOMAIN db.source_root[root]
                /\ OtherRootsWith(root, target) # {}) => query.res = None

C11_Witness ==
    /\ QueryCurrent("resolve_relative_path")
    /\ query.anchor \in Registered(db)
    /\ query.res = None
    /\ query.rel # <<>>
    /\ OtherRootsWith(db.file_source_root[query.anchor],
                      normalize(DirOf(db.file_relative_path[query.anchor]) \o query.rel)) # {}

\* the changes of the driver that give a file the text, path and source root
\* it has now
Renames ==
    {c \in {[kind |-> "add_file", file |-> f, root |-> db.file_source_root[f],
             path |-> db.file_relative_path[f], text |-> db.file_text[f]] :
                f \in Registered(db) \cap DOMAIN db.file_relative_path
                                     \cap DOMAIN db.file_source_root} :
        c \in AddFiles(InitDb)}

\* the inputs are those the driver's change c has made of the initial ones
After(c) == db = apply_all(InitDb, sets_of(InitDb, c))

\* C12, as claimed: after the driver has set file f's text to T and its path
\* to P in source root R, file_text(f) is T and resolve_relative_path(anchor, P)
\* is f for every anchor of R.
C12_RenameResolvesAnyAnchor ==
    \A c \in Renames :
        After(c) =>
            /\ (QueryCurrent("file_text") /\ query.id = c.file) =>
                  query.res = Value(c.text)
            /\ (/\ QueryCurrent("resolve_relative_path")
                /\ query.anchor \in Registered(db)
                /\ db.file_source_root[query.anchor] = c.root
                /\ query.rel = c.path) => query.res = Some(c.file)

\* C12: after the driver has set file f's text to T and its path to P in
\* source root R, file_text(f) is T, and for an anchor of R
\* resolve_relative_path(anchor, rel) is f whenever the anchor's directory
\* joined with rel normalizes to P: rel = P for the anchors whose path has a
\* single segment.
C12_RenameResolves ==
    \A c \in Renames :
        After(c) =>
            /\ (QueryCurrent("file_text") /\ query.id = c.file) =>
                  query.res = Value(c.text)
            /\ (/\ QueryCurrent("resolve_relative_path")
                /\ query.anchor \in Registered(db)
                /\ db.file_source_root[query.anchor] = c.root) =>
                  /\ normalize(DirOf(db.file_relative_path[query.anchor]) \o query.rel)
                        = c.path => query.res = Some(c.file)
                  /\ (Len(db.file_relative_path[query.anchor]) <= 1
                        /\ query.rel = c.path) => query.res = Some(c.file)

C12_Witness ==
    \E c \in Renames :
        /\ After(c)
        /\ c.file \in Registered(InitDb)
        /\ c.path # InitDb.file_relative_path[c.file]
        /\ QueryCurrent("resolve_relative_path")
        /\ query.anchor \in Registered(db) \ {c.file}
        /\ db.file_source_root[query.anchor] = c.root
        /\ Len(db.file_relative_path[query.anchor]) = 1
        /\ query.rel = c.path
        /\ query.res = Some(c.file)

\* ------------------------------------------- properties of the requests
\* C13: a parse that returns gives the tree of the file's current text and of
\* nothing else, so two parses of a file with no change of the inputs between
\* them give equal trees; the call leaves the inputs and the revision as they
\* are.
C13_ParseDeterministic ==
    /\ [](QueryCurrent("parse") /\ query.res.tag = "Ok" =>
            /\ query.id \in Registered(db)
            /\ query.res.val = SourceFile_parse(db.file_text[query.id]))
    /\ [][\A q \in Questions :
            (q.op = "parse" /\ Ask(q)) =>
                /\ UNCHANGED <<db, revision, pending_revision>>
                /\ (SameQuestion(q) /\ query.res.tag = "Ok" /\ query'.res.tag = "Ok") =>
                      query'.res = query.res]_vars

C13_Witness ==
    /\ QueryCurrent("parse")
    /\ query.again
    /\ query.res.tag = "Ok"
    /\ <<"parse", query.id>> \in DOMAIN memo
    /\ db.file_text[query.id] # InitDb.file_text[query.id]

\* C14: a source_root_crates(root) answered in the current revision, from the
\* engine's table or not, is what the function gives on the source root and
\* the crate graph as they are now.
C14_NeverStale ==
    (QueryCurrent("source_root_crates") /\ query.res.tag = "Ok") =>
        query.res.val = source_root_crates(query.id)

C14_Witness ==
    /\ QueryCurrent("source_root_crates")
    /\ revision > 1
    /\ query.res.tag = "Ok"
    /\ query.id = 1
    /\ query.res.val.val # <<1>>

\* C15: a request (resolve_relative_path, source_root_crates, parse or the
\* read of an input, under check_canceled and catch_canceled) leaves the
\* inputs and the revision as they are, whatever it ends with; the inputs
\* change only in a write of the driver and the revision only when the writer
\* takes over.
C15_RequestsLeaveInputs ==
    [][/\ LET q == [op |-> query'.op, anchor |-> query'.anchor,
                     rel |-> query'.rel, id |-> query'.id]
          IN  (query'.op # "none" /\ Ask(q)) =>
                  UNCHANGED <<db, revision, pending_revision>>
       /\ db' # db => WriteInput
       /\ revision' # revision => AcquireWrite
       /\ pending_revision' # pending_revision =>
             \E c \in DriverChanges(db) : RequestChange(c)]_vars

C15_Witness ==
    /\ query.op = "resolve_relative_path"
    /\ query.res = Err("Canceled")
    /\ wpc = "pending"
    /\ memo # NoMemo
    /\ db = InitDb

\* the question was asked of an identifier that is not registered
Unregistered(q) ==
    \/ q.op \in FileInputs \cup {"parse"} /\ q.id \notin Registered(db)
    \/ q.op \in {"source_root", "source_root_crates"} /\ q.id \notin DOMAIN db.source_root
    \/ q.op = "resolve_relative_path" /\ q.anchor \notin Registered(db)

\* C16: a request that reads an input of an identifier never registered ends
\* with the abort of that read, resumed by catch_canceled: not with a value or
\* None, and with Canceled only when the revision was canceled before the
\* read.
C16_UnsetInputAborts ==
    (query.op # "none" /\ Unregistered(query)) =>
        /\ query.res.tag \in {"Panic", "Err"}
        /\ query.res.tag = "Panic" => query.res = Propagated(UnsetInput)
        /\ query.res.tag = "Err" => is_current_revision_canceled

C16_Witness ==
    /\ query.op = "parse"
    /\ query.id \notin Registered(db)
    /\ query.res = Propagated(UnsetInput)
    /\ revision > 1

\* ------------------------------------- properties of a call of catch_canceled
\* what the thread's own steps change
Thread(t) == <<pc[t], depth[t], payload[t], ret[t], outcome[t], reads[t], last[t], hist[t]>>

Aborting(t) == pc[t] = "unwinding" /\ payload[t] = "Canceled"

\* C17: a computation starts to unwind with Canceled only in a step that is
\* its own check_canceled call; the steps of the writer, the revision bump
\* among them, leave every computation where it is; and a computation that
\* returns after its revision was superseded returns normally: catch_canceled
\* gives Ok of the value f returned.
C17_CooperativeOnly ==
    [][\A t \in Threads :
          /\ (Aborting(t)' /\ ~Aborting(t)) =>
                (CheckCanceled(t) /\ is_current_revision_canceled)
          /\ (pending_revision' # pending_revision \/ revision' # revision) =>
                UNCHANGED threads
          /\ \A v \in Values :
                (Return(t, v) /\ pending_revision > hist[t].start) =>
                    IF depth[t] = 1
                    THEN pc'[t] = "done" /\ outcome'[t] = Ok(v)
                    ELSE pc'[t] = "running" /\ ret'[t] = Ok(v)]_vars

C17_Witness ==
    \E t, u \in Threads :
        /\ pending_revision > hist[t].start
        /\ pc[t] = "running" /\ depth[t] = 1
        /\ last[t] = "work" /\ reads[t] # {}
        /\ pc[u] = "done" /\ last[u] = "return" /\ outcome[u] = Ok("v2")
        /\ hist[u].start = hist[t].start

\* C18: a call of catch_canceled has one outcome, there when the call is done
\* and not before; the outcome is Canceled only when check_canceled threw in
\* the call after a change superseded the revision it started in; once
\* Canceled unwinds the call, the thread's next step ends the call with
\* Canceled and not with a value, and an outcome, once there, stays until the
\* caller takes it.
C18_CallStateMachine ==
    /\ [](\A t \in Threads :
            /\ (pc[t] = "done") <=> (outcome[t] # NoResult)
            /\ outcome[t].tag \in {"none", "Ok", "Err", "Panic"}
            /\ outcome[t].tag = "Err" =>
                  /\ outcome[t].val = "Canceled"
                  /\ hist[t].thrown = 1
                  /\ hist[t].start < pending_revision
            /\ Aborting(t) =>
                  /\ hist[t].thrown = depth[t]
                  /\ hist[t].start < pending_revision
                  /\ outcome[t] = NoResult)
    /\ [][\A t \in Threads :
            /\ (Aborting(t) /\ Thread(t)' # Thread(t)) =>
                  /\ Unwind(t)
                  /\ depth'[t] = depth[t] - 1
                  /\ Err("Canceled") = (IF depth[t] = 1 THEN outcome'[t] ELSE ret'[t])
            /\ (pc[t] = "done" /\ Thread(t)' # Thread(t)) =>
                  (Finish(t) /\ pc'[t] = "idle")]_vars

C18_Witness ==
    \E t \in Threads :
        /\ pc[t] = "done"
        /\ outcome[t] = Err("Canceled")
        /\ hist[t].thrown = 1
        /\ reads[t] # {}
        /\ revision > hist[t].start

\* the place of a file in the enumeration of a source root
PlaceIn(files, file_id) == CHOOSE k \in 1..Len(files) : files[k] = file_id

\* C19: in the result of source_root_crates every entry is a crate whose root
\* file is a file of the source root, no file is the root file of two
\* entries, so the entries are no more than the files, and the entries are in
\* the order in which walk enumerates their root files.
C19_OnePerFileInOrder ==
    (QueryCurrent("source_root_crates") /\ query.res.tag = "Vec") =>
        LET files == walk(db.source_root[query.id])
            res == query.res.val
        IN  /\ Len(res) <= Len(files)
            /\ \A i \in 1..Len(res) :
                  /\ res[i] \in DOMAIN db.crate_graph
                  /\ db.crate_graph[res[i]] \in Range(files)
            /\ \A k \in 1..Len(files) :
                  Cardinality({i \in 1..Len(res) : db.crate_graph[res[i]] = files[k]}) <= 1
            /\ \A i, j \in 1..Len(res) :
                  i < j => PlaceIn(files, db.crate_graph[res[i]])
                              < PlaceIn(files, db.crate_graph[res[j]])

C19_Witness ==
    /\ QueryCurrent("source_root_crates")
    /\ query.res.tag = "Vec"
    /\ Len(query.res.val) = 2
    /\ Len(walk(db.source_root[query.id])) = 2
    /\ query.res.val[1] > query.res.val[2]

====
